---- MODULE Spec2Model ----
(***************************************************************************)
(* Model of the s2delaunay / s2voronoi construction pipeline:              *)
(*   NewTriangulation (options, validation, hull call, cardinality check,  *)
(*   CSR counting / prefix sum / placement, per-triangle orientation,      *)
(*   per-site CCW incidence sort), NewDiagram (circumcenters, neighbour    *)
(*   lists over the shared CSR offsets), the Triangulation accessors and   *)
(*   the Cell view.                                                        *)
(*                                                                         *)
(* Go slices and arrays are functions over 0..len-1, so every index in the *)
(* model is the index of the source.  Site coordinates are exact integer   *)
(* vectors on the sphere of radius 3 (the unit sphere scaled by 3): every  *)
(* geometric test of the code is the sign of a homogeneous polynomial of   *)
(* the coordinates, which a common positive scale does not change.         *)
(* Epsilon values are integers in units of 1e-12.                          *)
(***************************************************************************)
EXTENDS Integers, Sequences, FiniteSets, TLC

VARIABLES
    pc,         \* position of the running construction call
    entry,      \* entry point called: "NewTriangulation" or "NewDiagram"
    epsArg,     \* epsilon given by the caller (NoEps: no WithEps setter)
    vertices,   \* the sites handed in
    setters,    \* option setters handed to NewTriangulation
    opts,       \* TriangulationOptions
    hull,       \* the hull collaborator's call record and returned indices
    dt,         \* the Triangulation under construction (the local t)
    nxt,        \* per-site write cursor of the placement pass
    iter,       \* loop counter of the placement loop / the sort loop
    ret,        \* what NewTriangulation returned
    diagram,    \* what NewDiagram returned
    call        \* the last accessor call and its outcome

vars == <<pc, entry, epsArg, vertices, setters, opts, hull, dt, nxt, iter, ret, diagram, call>>

-----------------------------------------------------------------------------
(* Bounds of the model. *)

\* Hull outputs list the faces in every order within MaxSwaps transpositions
\* of the sorted order.
MaxSwaps == 3

\* Epsilons handed in range over -1..MaxEps (units of 1e-12).
MaxEps == 1

-----------------------------------------------------------------------------
(* Program constants. *)

defaultEps == 1

MinVertices == 4

\* An epsilon argument: absent (no WithEps setter), or given with a value.
NoEps == [given |-> FALSE, eps |-> 0]

GivenEps(e) == [given |-> TRUE, eps |-> e]

\* The value of a failed call, and the nil pointers.
Nil == "nil"

NilTriangulation ==
    [Vertices |-> <<>>, Triangles |-> <<>>,
     IncidentTriangleIndices |-> <<>>, IncidentTriangleOffsets |-> <<>>]

NilDiagram ==
    [Sites |-> <<>>, Vertices |-> <<>>, CellVertices |-> <<>>,
     CellNeighbors |-> <<>>, CellOffsets |-> <<>>]

ErrInvalidEps == "WithEps: eps must be positive"
ErrInsufficient == "NewTriangulation: insufficient vertices"
ErrInconsistentHull == "NewTriangulation: inconsistent number of indices"
ErrOutOfRange == "out of range"
ErrNotInTriangle == "vIdx not in triangle"
NoErr == "nil error"

-----------------------------------------------------------------------------
(* Slices. *)

Len0(a) == Cardinality(DOMAIN a)

Make(n, v) == [k \in 0..(n - 1) |-> v]

Slice(a, lo, hi) == [k \in 0..(hi - lo - 1) |-> a[lo + k]]

Swap(a, x, y) == [a EXCEPT ![x] = a[y], ![y] = a[x]]

-----------------------------------------------------------------------------
(* r3.Vector arithmetic, exact. *)

VSub(a, b) == <<a[1] - b[1], a[2] - b[2], a[3] - b[3]>>

VAdd(a, b) == <<a[1] + b[1], a[2] + b[2], a[3] + b[3]>>

VMul(a, m) == <<a[1] * m, a[2] * m, a[3] * m>>

VCross(a, b) ==
    <<a[2] * b[3] - a[3] * b[2], a[3] * b[1] - a[1] * b[3], a[1] * b[2] - a[2] * b[1]>>

VDot(a, b) == a[1] * b[1] + a[2] * b[2] + a[3] * b[3]

Abs(x) == IF x < 0 THEN -x ELSE x

RECURSIVE Gcd(_, _)
Gcd(a, b) == IF b = 0 THEN a ELSE Gcd(b, a % b)

\* Normalize maps every vector of a ray to the ray's one representative (the
\* unit vector in the source, the primitive integer vector here); the zero
\* vector stays zero.
VNormalize(a) ==
    LET g == Gcd(Gcd(Abs(a[1]), Abs(a[2])), Abs(a[3]))
    IN IF g = 0 THEN a ELSE <<a[1] \div g, a[2] \div g, a[3] \div g>>

-----------------------------------------------------------------------------
(* Inputs: site sets. *)

\* Six sites in general position whose hull contains the origin; so do the
\* hulls of the first four and of the first five.
InsideSites ==
    [k \in 0..5 |->
        CASE k = 0 -> <<2, 2, 1>>
          [] k = 1 -> <<-2, -2, 1>>
          [] k = 2 -> <<2, -2, -1>>
          [] k = 3 -> <<-2, 2, -1>>
          [] k = 4 -> <<0, 0, 3>>
          [] OTHER -> <<0, 3, 0>>]

\* Four sites in general position inside one open hemisphere (z > 0): the
\* origin lies outside their hull.
HemisphereSites ==
    [k \in 0..3 |->
        CASE k = 0 -> <<0, 0, 3>>
          [] k = 1 -> <<2, 1, 2>>
          [] k = 2 -> <<-2, 1, 2>>
          [] OTHER -> <<1, -2, 2>>]

SiteInputs ==
    {Slice(InsideSites, 0, n) : n \in (MinVertices - 1)..Len0(InsideSites)}
        \cup {HemisphereSites}

EpsInputs(e) ==
    {GivenEps(x) : x \in -1..MaxEps} \cup (IF e = "NewTriangulation" THEN {NoEps} ELSE {})

-----------------------------------------------------------------------------
(* The hull collaborator.  Its output is a flat list of index triples. *)

\* The faces of the convex hull of sites P, each listed once, oriented
\* counter-clockwise seen from outside the hull, smallest index first.
HullFaces(P) ==
    {f \in (DOMAIN P) \X (DOMAIN P) \X (DOMAIN P) :
        /\ f[1] < f[2]
        /\ f[1] < f[3]
        /\ f[2] # f[3]
        /\ LET n == VCross(VSub(P[f[2]], P[f[1]]), VSub(P[f[3]], P[f[1]]))
           IN \A o \in DOMAIN P \ {f[1], f[2], f[3]} : VDot(n, VSub(P[o], P[f[1]])) < 0}

FaceLess(f, g) ==
    \/ f[1] < g[1]
    \/ f[1] = g[1] /\ f[2] < g[2]
    \/ f[1] = g[1] /\ f[2] = g[2] /\ f[3] < g[3]

\* The faces of F in lexicographic order, as a slice.
RECURSIVE SortedFaces(_)
SortedFaces(F) ==
    IF F = {} THEN <<>>
    ELSE LET m == CHOOSE f \in F : \A g \in F \ {f} : FaceLess(f, g)
         IN <<m>> \o SortedFaces(F \ {m})

FaceList(P) == LET s == SortedFaces(HullFaces(P)) IN [k \in 0..(Len(s) - 1) |-> s[k + 1]]

\* Every order of the slice a within k transpositions of a.
RECURSIVE Shuffles(_, _)
Shuffles(a, k) ==
    IF k = 0 THEN {a}
    ELSE LET prev == Shuffles(a, k - 1)
         IN prev \cup {Swap(p, x, y) : p \in prev, x \in DOMAIN a, y \in DOMAIN a}

\* A face as the collaborator reports it: rotated by r, and with the last two
\* vertices exchanged when the collaborator lists faces clockwise.
Reported(f, r, cw) ==
    LET rot == [k \in 0..2 |-> f[((k + r) % 3) + 1]]
    IN IF cw THEN Swap(rot, 1, 2) ELSE rot

Flatten(faces) == [k \in 0..(3 * Len0(faces) - 1) |-> faces[k \div 3][k % 3]]

\* The face lists of the six-site input are shuffled by two transpositions
\* less than the others, which keeps the outputs in the hundreds.
SwapBudget(P) == IF Len0(P) > MinVertices + 1 THEN MaxSwaps - 2 ELSE MaxSwaps

\* The outputs of a collaborator that reports the hull's faces: the face
\* orders within the budget, one consistent orientation.
GoodHullOutputs(P) ==
    {Flatten([k \in DOMAIN fl |-> Reported(fl[k], v[1], v[2])]) :
        fl \in Shuffles(FaceList(P), SwapBudget(P)), v \in {<<0, FALSE>>, <<1, TRUE>>}}

\* Outputs the builder must not trust: a face missing, a face listed twice,
\* one face replaced by a copy of another, a face with a repeated vertex.
BadHullOutputs(P) ==
    LET fl == [k \in DOMAIN FaceList(P) |-> Reported(FaceList(P)[k], 0, FALSE)]
        n == Len0(fl)
    IN IF n < 2 THEN {}
       ELSE {Flatten(Slice(fl, 0, n - 1)),
             Flatten([k \in 0..n |-> IF k = n THEN fl[0] ELSE fl[k]]),
             Flatten([fl EXCEPT ![n - 1] = fl[0]]),
             Flatten([fl EXCEPT ![0] = [fl[0] EXCEPT ![1] = fl[0][0]]])}

HullOutputs(P) == GoodHullOutputs(P) \cup BadHullOutputs(P)

-----------------------------------------------------------------------------
(* s2delaunay: pure functions. *)

\* WithEps with the comparison eps < 0: a zero epsilon is let through.
WithEps_AcceptsZero(eps, o) ==
    IF eps < 0 THEN [err |-> ErrInvalidEps, o |-> o]
    ELSE [err |-> NoErr, o |-> [o EXCEPT !.Eps = eps]]

WithEps(eps, o) ==
    IF eps <= 0 THEN [err |-> ErrInvalidEps, o |-> o]
    ELSE [err |-> NoErr, o |-> [o EXCEPT !.Eps = eps]]

\* PrevVertex returning the zero value without an error for a site that is
\* not in the triangle.
PrevVertex_DefaultOnMiss(tri, vIdx) ==
    IF vIdx = tri[0] THEN [val |-> tri[2], err |-> NoErr]
    ELSE IF vIdx = tri[1] THEN [val |-> tri[0], err |-> NoErr]
    ELSE IF vIdx = tri[2] THEN [val |-> tri[1], err |-> NoErr]
    ELSE [val |-> 0, err |-> NoErr]

PrevVertex(tri, vIdx) ==
    IF vIdx = tri[0] THEN [val |-> tri[2], err |-> NoErr]
    ELSE IF vIdx = tri[1] THEN [val |-> tri[0], err |-> NoErr]
    ELSE IF vIdx = tri[2] THEN [val |-> tri[1], err |-> NoErr]
    ELSE [val |-> 0, err |-> ErrNotInTriangle]

NextVertex(tri, vIdx) ==
    IF vIdx = tri[0] THEN [val |-> tri[1], err |-> NoErr]
    ELSE IF vIdx = tri[1] THEN [val |-> tri[2], err |-> NoErr]
    ELSE IF vIdx = tri[2] THEN [val |-> tri[0], err |-> NoErr]
    ELSE [val |-> 0, err |-> ErrNotInTriangle]

sortTriangleVerticesCCW(tri, v) ==
    LET p0 == v[tri[0]]
        p1 == v[tri[1]]
        p2 == v[tri[2]]
        norm == VCross(VSub(p1, p0), VSub(p2, p0))
    IN IF VDot(norm, p0) < 0 THEN Swap(tri, 1, 2) ELSE tri

\* The inner loop of the incidence sort: the first j in from..n-1 at which
\* PrevVertex fails (a panic) or matches want; n when there is none.
RECURSIVE FindPrev(_, _, _, _, _)
FindPrev(vIdx, incidentTris, tris, want, from) ==
    IF from >= Len0(incidentTris) THEN [j |-> from, panic |-> FALSE]
    ELSE LET prv == PrevVertex(tris[incidentTris[from]], vIdx)
         IN IF prv.err # NoErr THEN [j |-> from, panic |-> TRUE]
            ELSE IF prv.val = want THEN [j |-> from, panic |-> FALSE]
            ELSE FindPrev(vIdx, incidentTris, tris, want, from + 1)

\* The outer loop from position k on.
RECURSIVE SortFrom(_, _, _, _)
SortFrom(vIdx, incidentTris, tris, k) ==
    IF k >= Len0(incidentTris) THEN [val |-> incidentTris, panic |-> FALSE]
    ELSE LET n == NextVertex(tris[incidentTris[k - 1]], vIdx)
         IN IF n.err # NoErr THEN [val |-> incidentTris, panic |-> TRUE]
            ELSE LET f == FindPrev(vIdx, incidentTris, tris, n.val, k + 1)
                 IN IF f.panic THEN [val |-> incidentTris, panic |-> TRUE]
                    ELSE IF f.j < Len0(incidentTris)
                         THEN SortFrom(vIdx, Swap(incidentTris, k, f.j), tris, k + 1)
                         ELSE SortFrom(vIdx, incidentTris, tris, k + 1)

\* The incidence sort with the swap left out: the slice stays as placed.
sortIncidentTriangleIndicesCCW_NoSwap(vIdx, incidentTris, tris) ==
    [val |-> incidentTris, panic |-> SortFrom(vIdx, incidentTris, tris, 1).panic]

sortIncidentTriangleIndicesCCW(vIdx, incidentTris, tris) ==
    SortFrom(vIdx, incidentTris, tris, 1)

IncidentTriangles(tr, vIdx) ==
    IF vIdx < 0 \/ vIdx + 1 >= Len0(tr.IncidentTriangleOffsets)
    THEN [val |-> Nil, err |-> ErrOutOfRange]
    ELSE [val |-> Slice(tr.IncidentTriangleIndices,
                        tr.IncidentTriangleOffsets[vIdx],
                        tr.IncidentTriangleOffsets[vIdx + 1]),
          err |-> NoErr]

TriangleVertices(tr, tIdx) ==
    IF tIdx < 0 \/ tIdx >= Len0(tr.Triangles)
    THEN [val |-> Nil, err |-> ErrOutOfRange]
    ELSE [val |-> [k \in 0..2 |-> tr.Vertices[tr.Triangles[tIdx][k]]], err |-> NoErr]

-----------------------------------------------------------------------------
(* NewTriangulation: the steps of its body. *)

\* The vertex count check off by one: three sites are let through.
InsufficientVertices_OffByOne(numVertices) == numVertices < MinVertices - 1

InsufficientVertices(numVertices) == numVertices < MinVertices

NumTriangles(numVertices) == 2 * (numVertices - 2)

Allocate(vs) ==
    [Vertices |-> vs,
     Triangles |-> Make(NumTriangles(Len0(vs)), Make(3, 0)),
     IncidentTriangleIndices |-> Make(NumTriangles(Len0(vs)) * 3, 0),
     IncidentTriangleOffsets |-> Make(Len0(vs) + 1, 0)]

\* The cardinality check as "at least": extra indices are let through.
HullCountOK_AtLeast(ch, numTriangles) == Len0(ch) >= numTriangles * 3

HullCountOK(ch, numTriangles) == Len0(ch) = numTriangles * 3

\* for _, idx := range ch.Indices { offsets[idx+1]++ }
CountPass(offsets, ch) ==
    [k \in DOMAIN offsets |-> offsets[k] + Cardinality({m \in DOMAIN ch : ch[m] + 1 = k})]

\* for i := range numVertices { offsets[i+1] += offsets[i] }, up to from k on.
RECURSIVE PrefixFrom(_, _, _)
PrefixFrom(offsets, k, numVertices) ==
    IF k >= numVertices THEN offsets
    ELSE PrefixFrom([offsets EXCEPT ![k + 1] = offsets[k + 1] + offsets[k]], k + 1, numVertices)

\* The prefix sum stopping one site early: the last offset is not a total.
PrefixSum_SkipLast(offsets, numVertices) == PrefixFrom(offsets, 0, numVertices - 1)

PrefixSum(offsets, numVertices) == PrefixFrom(offsets, 0, numVertices)

\* The placement of one vertex with the cursor left where it was.
PlaceVertex_NoAdvance(st, ch, tIdx, j) ==
    LET v == ch[tIdx * 3 + j]
    IN [tr |-> [st.tr EXCEPT !.Triangles[tIdx][j] = v,
                             !.IncidentTriangleIndices[st.cur[v]] = tIdx],
        cur |-> st.cur]

\* One vertex of one triangle in the placement loop: the state is the pair
\* (triangulation, cursor).
PlaceVertex(st, ch, tIdx, j) ==
    LET v == ch[tIdx * 3 + j]
    IN [tr |-> [st.tr EXCEPT !.Triangles[tIdx][j] = v,
                             !.IncidentTriangleIndices[st.cur[v]] = tIdx],
        cur |-> [st.cur EXCEPT ![v] = st.cur[v] + 1]]

\* One iteration of the placement loop, its orientation call included.
PlaceTriangle(st, ch, tIdx) ==
    LET s3 == PlaceVertex(PlaceVertex(PlaceVertex(st, ch, tIdx, 0), ch, tIdx, 1), ch, tIdx, 2)
    IN [tr |-> [s3.tr EXCEPT !.Triangles[tIdx] =
                    sortTriangleVerticesCCW(s3.tr.Triangles[tIdx], s3.tr.Vertices)],
        cur |-> s3.cur]

\* The slice handed to the sort aliases IncidentTriangleIndices: the sorted
\* values land in the triangulation itself.
WriteBack(tr, vIdx, sorted) ==
    LET start == tr.IncidentTriangleOffsets[vIdx]
    IN [tr EXCEPT !.IncidentTriangleIndices =
            [k \in DOMAIN tr.IncidentTriangleIndices |->
                IF k >= start /\ k - start \in DOMAIN sorted THEN sorted[k - start]
                ELSE tr.IncidentTriangleIndices[k]]]

-----------------------------------------------------------------------------
(* s2voronoi: the Diagram. *)

triangleCircumcenter(p1, p2, p3) ==
    LET v1 == VSub(p1, p2)
        v2 == VSub(p2, p3)
        circumcenter == VCross(v1, v2)
    IN IF VDot(circumcenter, VAdd(VAdd(p1, p2), p3)) < 0 THEN VMul(circumcenter, -1)
       ELSE circumcenter

\* The neighbour loop of NewDiagram from site vIdx on: the entries of site
\* vIdx are written at offset + i, i over its incident triangles.
RECURSIVE FillNeighbors(_, _, _)
FillNeighbors(nb, tr, vIdx) ==
    IF vIdx >= Len0(tr.Vertices) THEN nb
    ELSE LET offset == tr.IncidentTriangleOffsets[vIdx]
             inc == IncidentTriangles(tr, vIdx).val
             written == [k \in DOMAIN nb |->
                            IF k >= offset /\ k - offset \in DOMAIN inc
                            THEN NextVertex(tr.Triangles[inc[k - offset]], vIdx).val
                            ELSE nb[k]]
         IN FillNeighbors(written, tr, vIdx + 1)

\* The neighbour loop writing at i instead of offset + i.
RECURSIVE FillNeighbors_NoOffset(_, _, _)
FillNeighbors_NoOffset(nb, tr, vIdx) ==
    IF vIdx >= Len0(tr.Vertices) THEN nb
    ELSE LET inc == IncidentTriangles(tr, vIdx).val
             written == [k \in DOMAIN nb |->
                            IF k \in DOMAIN inc
                            THEN NextVertex(tr.Triangles[inc[k]], vIdx).val
                            ELSE nb[k]]
         IN FillNeighbors_NoOffset(written, tr, vIdx + 1)

CellNeighborsOf_NoOffset(tr) ==
    FillNeighbors_NoOffset(Make(Len0(tr.IncidentTriangleIndices), 0), tr, 0)

CellNeighborsOf(tr) == FillNeighbors(Make(Len0(tr.IncidentTriangleIndices), 0), tr, 0)

DiagramVertices(tr) ==
    [k \in DOMAIN tr.Triangles |->
        LET p == TriangleVertices(tr, k).val
        IN VNormalize(triangleCircumcenter(p[0], p[1], p[2]))]

BuildDiagram(tr) ==
    [Sites |-> tr.Vertices,
     Vertices |-> DiagramVertices(tr),
     CellVertices |-> tr.IncidentTriangleIndices,
     CellNeighbors |-> CellNeighborsOf(tr),
     CellOffsets |-> tr.IncidentTriangleOffsets]

NumCells(dg) == Len0(dg.Sites)

Cell(dg, k) == [idx |-> k]

-----------------------------------------------------------------------------
(* The Cell view: a site index over the shared arrays of its Diagram. *)

CellSiteIndex(c) == c.idx

CellSite(dg, c) == dg.Sites[c.idx]

CellNumVertices(dg, c) == dg.CellOffsets[c.idx + 1] - dg.CellOffsets[c.idx]

CellNumNeighbors(dg, c) == dg.CellOffsets[c.idx + 1] - dg.CellOffsets[c.idx]

CellVertexIndices(dg, c) ==
    Slice(dg.CellVertices, dg.CellOffsets[c.idx], dg.CellOffsets[c.idx + 1])

CellNeighborIndices(dg, c) ==
    Slice(dg.CellNeighbors, dg.CellOffsets[c.idx], dg.CellOffsets[c.idx + 1])

CellVertex(dg, c, j) ==
    IF j < 0 \/ j >= CellNumVertices(dg, c) THEN [val |-> Nil, err |-> ErrOutOfRange]
    ELSE [val |-> dg.Vertices[CellVertexIndices(dg, c)[j]], err |-> NoErr]

CellNeighbor(dg, c, j) ==
    IF \/ j < 0
       \/ j >= CellNumNeighbors(dg, c)
       \/ dg.CellOffsets[c.idx] + j \notin DOMAIN dg.CellNeighbors
       \/ CellNeighborIndices(dg, c)[j] \notin 0..(NumCells(dg) - 1)
    THEN [val |-> Nil, err |-> ErrOutOfRange]
    ELSE [val |-> Cell(dg, CellNeighborIndices(dg, c)[j]), err |-> NoErr]

-----------------------------------------------------------------------------
(* The state machine. *)

NotReturned == [returned |-> FALSE, nil |-> TRUE, t |-> NilTriangulation, err |-> NoErr]

\* return nil, err
Failed(err) == [returned |-> TRUE, nil |-> TRUE, t |-> NilTriangulation, err |-> err]

\* return t, nil
Returned(tr) == [returned |-> TRUE, nil |-> FALSE, t |-> tr, err |-> NoErr]

Init ==
    /\ pc = "call"
    /\ entry \in {"NewTriangulation", "NewDiagram"}
    /\ epsArg \in EpsInputs(entry)
    /\ vertices \in SiteInputs
    /\ setters = <<>>
    /\ opts = [Eps |-> 0]
    /\ hull = [called |-> FALSE, eps |-> 0, Indices |-> <<>>]
    /\ dt = NilTriangulation
    /\ nxt = <<>>
    /\ iter = 0
    /\ ret = NotReturned
    /\ diagram = [returned |-> FALSE, nil |-> TRUE, d |-> NilDiagram, err |-> NoErr]
    /\ call = [op |-> "none", args |-> <<>>, res |-> [val |-> Nil, err |-> NoErr]]

\* What NewTriangulation does after it has returned to its caller.
AfterReturn == IF entry = "NewDiagram" THEN "diagram" ELSE "done"

\* NewTriangulation called directly, with no setter or with WithEps(epsArg).
CallNewTriangulation ==
    /\ pc = "call"
    /\ entry = "NewTriangulation"
    /\ setters' = IF epsArg.given THEN <<epsArg.eps>> ELSE <<>>
    /\ opts' = [Eps |-> defaultEps]
    /\ pc' = "options"
    /\ UNCHANGED <<entry, epsArg, vertices, hull, dt, nxt, iter, ret, diagram, call>>

\* NewDiagram up to its call of NewTriangulation.
CallNewDiagram ==
    /\ pc = "call"
    /\ entry = "NewDiagram"
    /\ setters' = <<IF epsArg.eps = 0 THEN defaultEps ELSE epsArg.eps>>
    /\ opts' = [Eps |-> defaultEps]
    /\ pc' = "options"
    /\ UNCHANGED <<entry, epsArg, vertices, hull, dt, nxt, iter, ret, diagram, call>>

\* The setter loop: at most one setter is handed in.
ApplyOptions ==
    /\ pc = "options"
    /\ LET r == IF setters = <<>> THEN [err |-> NoErr, o |-> opts]
                ELSE WithEps(setters[1], opts)
       IN IF r.err # NoErr
          THEN /\ ret' = Failed(r.err)
               /\ pc' = AfterReturn
               /\ opts' = opts
          ELSE /\ opts' = r.o
               /\ pc' = "validate"
               /\ ret' = ret
    /\ UNCHANGED <<entry, epsArg, vertices, setters, hull, dt, nxt, iter, diagram, call>>

\* The vertex count check, then the allocation of the Triangulation.
CheckVertices ==
    /\ pc = "validate"
    /\ IF InsufficientVertices(Len0(vertices))
       THEN /\ ret' = Failed(ErrInsufficient)
            /\ pc' = AfterReturn
            /\ dt' = dt
       ELSE /\ dt' = Allocate(vertices)
            /\ pc' = "hull"
            /\ ret' = ret
    /\ UNCHANGED <<entry, epsArg, vertices, setters, opts, hull, nxt, iter, diagram, call>>

\* qh.ConvexHull(r3vertices, true, true, opts.Eps).
ConvexHull ==
    /\ pc = "hull"
    /\ \E ch \in HullOutputs(vertices) :
           hull' = [called |-> TRUE, eps |-> opts.Eps, Indices |-> ch]
    /\ pc' = "check"
    /\ UNCHANGED <<entry, epsArg, vertices, setters, opts, dt, nxt, iter, ret, diagram, call>>

\* The cardinality check of the hull output.
CheckHull ==
    /\ pc = "check"
    /\ IF HullCountOK(hull.Indices, Len0(dt.Triangles))
       THEN /\ pc' = "count"
            /\ ret' = ret
       ELSE /\ ret' = Failed(ErrInconsistentHull)
            /\ pc' = AfterReturn
    /\ UNCHANGED <<entry, epsArg, vertices, setters, opts, hull, dt, nxt, iter, diagram, call>>

\* The counting pass.
Counting ==
    /\ pc = "count"
    /\ dt' = [dt EXCEPT !.IncidentTriangleOffsets = CountPass(@, hull.Indices)]
    /\ pc' = "prefix"
    /\ UNCHANGED <<entry, epsArg, vertices, setters, opts, hull, nxt, iter, ret, diagram, call>>

\* The prefix sum, and the copy of the start offsets into the cursor.
Prefix ==
    /\ pc = "prefix"
    /\ LET offsets == PrefixSum(dt.IncidentTriangleOffsets, Len0(vertices))
       IN /\ dt' = [dt EXCEPT !.IncidentTriangleOffsets = offsets]
          /\ nxt' = Slice(offsets, 0, Len0(vertices))
    /\ iter' = 0
    /\ pc' = "place"
    /\ UNCHANGED <<entry, epsArg, vertices, setters, opts, hull, ret, diagram, call>>

\* One iteration of the placement loop.
Place ==
    /\ pc = "place"
    /\ iter < Len0(dt.Triangles)
    /\ LET st == PlaceTriangle([tr |-> dt, cur |-> nxt], hull.Indices, iter)
       IN /\ dt' = st.tr
          /\ nxt' = st.cur
    /\ iter' = iter + 1
    /\ UNCHANGED <<pc, entry, epsArg, vertices, setters, opts, hull, ret, diagram, call>>

\* The placement loop ends; the sort loop begins.
PlaceDone ==
    /\ pc = "place"
    /\ iter >= Len0(dt.Triangles)
    /\ iter' = 0
    /\ pc' = "sort"
    /\ UNCHANGED <<entry, epsArg, vertices, setters, opts, hull, dt, nxt, ret, diagram, call>>

\* One iteration of the sort loop: site iter.
SortSite ==
    /\ pc = "sort"
    /\ iter < Len0(vertices)
    /\ LET inc == IncidentTriangles(dt, iter)
       IN IF inc.err # NoErr
          THEN /\ ret' = Failed(inc.err)
               /\ pc' = AfterReturn
               /\ UNCHANGED <<dt, iter>>
          ELSE LET s == sortIncidentTriangleIndicesCCW(iter, inc.val, dt.Triangles)
               IN IF s.panic
                  THEN /\ pc' = "panic"
                       /\ UNCHANGED <<dt, iter, ret>>
                  ELSE /\ dt' = WriteBack(dt, iter, s.val)
                       /\ iter' = iter + 1
                       /\ UNCHANGED <<pc, ret>>
    /\ UNCHANGED <<entry, epsArg, vertices, setters, opts, hull, nxt, diagram, call>>

\* return t, nil
ReturnTriangulation ==
    /\ pc = "sort"
    /\ iter >= Len0(vertices)
    /\ ret' = Returned(dt)
    /\ pc' = AfterReturn
    /\ UNCHANGED <<entry, epsArg, vertices, setters, opts, hull, dt, nxt, iter, diagram, call>>

\* NewDiagram after NewTriangulation has returned.
NewDiagram ==
    /\ pc = "diagram"
    /\ diagram' = IF ret.err # NoErr
                  THEN [returned |-> TRUE, nil |-> TRUE, d |-> NilDiagram, err |-> ret.err]
                  ELSE [returned |-> TRUE, nil |-> FALSE, d |-> BuildDiagram(ret.t),
                        err |-> NoErr]
    /\ pc' = "done"
    /\ UNCHANGED <<entry, epsArg, vertices, setters, opts, hull, dt, nxt, iter, ret, call>>

-----------------------------------------------------------------------------
(* Accessor calls on a returned structure. *)

\* The accessors read and never write: one call per run shows all they can do.
NoCallYet == call.op = "none"

HasTriangulation == pc = "done" /\ entry = "NewTriangulation" /\ ~ret.nil

HasDiagram == pc = "done" /\ entry = "NewDiagram" /\ ~diagram.nil

DoIncidentTriangles ==
    /\ HasTriangulation
    /\ NoCallYet
    /\ \E vIdx \in -1..(Len0(ret.t.Vertices) + 1) :
           call' = [op |-> "IncidentTriangles", args |-> <<vIdx>>,
                    res |-> IncidentTriangles(ret.t, vIdx)]
    /\ UNCHANGED <<pc, entry, epsArg, vertices, setters, opts, hull, dt, nxt, iter, ret, diagram>>

DoTriangleVertices ==
    /\ HasTriangulation
    /\ NoCallYet
    /\ \E tIdx \in -1..(Len0(ret.t.Triangles) + 1) :
           call' = [op |-> "TriangleVertices", args |-> <<tIdx>>,
                    res |-> TriangleVertices(ret.t, tIdx)]
    /\ UNCHANGED <<pc, entry, epsArg, vertices, setters, opts, hull, dt, nxt, iter, ret, diagram>>

DoNextVertex ==
    /\ HasTriangulation
    /\ NoCallYet
    /\ \E tIdx \in DOMAIN ret.t.Triangles, vIdx \in -1..Len0(ret.t.Vertices) :
           call' = [op |-> "NextVertex", args |-> <<ret.t.Triangles[tIdx], vIdx>>,
                    res |-> NextVertex(ret.t.Triangles[tIdx], vIdx)]
    /\ UNCHANGED <<pc, entry, epsArg, vertices, setters, opts, hull, dt, nxt, iter, ret, diagram>>

DoPrevVertex ==
    /\ HasTriangulation
    /\ NoCallYet
    /\ \E tIdx \in DOMAIN ret.t.Triangles, vIdx \in -1..Len0(ret.t.Vertices) :
           call' = [op |-> "PrevVertex", args |-> <<ret.t.Triangles[tIdx], vIdx>>,
                    res |-> PrevVertex(ret.t.Triangles[tIdx], vIdx)]
    /\ UNCHANGED <<pc, entry, epsArg, vertices, setters, opts, hull, dt, nxt, iter, ret, diagram>>

DoCellVertex ==
    /\ HasDiagram
    /\ NoCallYet
    /\ \E k \in 0..(NumCells(diagram.d) - 1) :
         \E j \in -1..(CellNumVertices(diagram.d, Cell(diagram.d, k)) + 1) :
           call' = [op |-> "Cell.Vertex", args |-> <<k, j>>,
                    res |-> CellVertex(diagram.d, Cell(diagram.d, k), j)]
    /\ UNCHANGED <<pc, entry, epsArg, vertices, setters, opts, hull, dt, nxt, iter, ret, diagram>>

DoCellNeighbor ==
    /\ HasDiagram
    /\ NoCallYet
    /\ \E k \in 0..(NumCells(diagram.d) - 1) :
         \E j \in -1..(CellNumVertices(diagram.d, Cell(diagram.d, k)) + 1) :
           call' = [op |-> "Cell.Neighbor", args |-> <<k, j>>,
                    res |-> CellNeighbor(diagram.d, Cell(diagram.d, k), j)]
    /\ UNCHANGED <<pc, entry, epsArg, vertices, setters, opts, hull, dt, nxt, iter, ret, diagram>>

Next ==
    \/ CallNewTriangulation
    \/ CallNewDiagram
    \/ ApplyOptions
    \/ CheckVertices
    \/ ConvexHull
    \/ CheckHull
    \/ Counting
    \/ Prefix
    \/ Place
    \/ PlaceDone
    \/ SortSite
    \/ ReturnTriangulation
    \/ NewDiagram
    \/ DoIncidentTriangles
    \/ DoTriangleVertices
    \/ DoNextVertex
    \/ DoPrevVertex
    \/ DoCellVertex
    \/ DoCellNeighbor

Spec == Init /\ [][Next]_vars

-----------------------------------------------------------------------------
(* Vocabulary of the claims. *)

NumSites == Len0(vertices)

\* NewTriangulation has handed back a Triangulation.  The accessor calls that
\* may follow leave it as it is, so it is looked at before them.
Succeeded == ret.returned /\ ~ret.nil /\ NoCallYet

\* NewDiagram has handed back a Diagram.
DiagramBuilt == diagram.returned /\ ~diagram.nil /\ NoCallYet

\* The triples of a flat hull output.
HullTriangles(ch) == [k \in 0..((Len0(ch) \div 3) - 1) |-> [j \in 0..2 |-> ch[3 * k + j]]]

DirectedEdges(tri) == {<<tri[0], tri[1]>>, <<tri[1], tri[2]>>, <<tri[2], tri[0]>>}

EdgeCount(tris, e) == Cardinality({k \in DOMAIN tris : e \in DirectedEdges(tris[k])})

IncidentSet(tris, v) == {k \in DOMAIN tris : v \in {tris[k][0], tris[k][1], tris[k][2]}}

\* The triangles reached from triangle cur by walking the fan of site v:
\* from a triangle to the one whose PrevVertex is its NextVertex.
RECURSIVE FanOrbit(_, _, _, _)
FanOrbit(tris, v, cur, seen) ==
    LET succ == {k \in IncidentSet(tris, v) \ seen :
                    PrevVertex(tris[k], v).val = NextVertex(tris[cur], v).val}
    IN IF succ = {} THEN seen
       ELSE LET k == CHOOSE x \in succ : TRUE IN FanOrbit(tris, v, k, seen \cup {k})

\* A consistently oriented triangulation of the sphere over sites 0..n-1:
\* every triangle has three sites, every directed edge lies in exactly one
\* triangle and its reverse in exactly one, and the triangles around every
\* site form one closed fan.
WellFormed(tris, n) ==
    /\ \A k \in DOMAIN tris :
          /\ \A j \in 0..2 : tris[k][j] \in 0..(n - 1)
          /\ Cardinality({tris[k][0], tris[k][1], tris[k][2]}) = 3
          /\ \A e \in DirectedEdges(tris[k]) :
                EdgeCount(tris, e) = 1 /\ EdgeCount(tris, <<e[2], e[1]>>) = 1
    /\ \A v \in 0..(n - 1) :
          /\ IncidentSet(tris, v) # {}
          /\ \A k \in IncidentSet(tris, v) : FanOrbit(tris, v, k, {k}) = IncidentSet(tris, v)

\* Consecutive entries of every site's incidence slice share an edge at it.
CyclicConsistent(tr) ==
    \A v \in 0..(Len0(tr.Vertices) - 1) :
        LET inc == IncidentTriangles(tr, v).val
        IN \A k \in 1..(Len0(inc) - 1) :
              /\ NextVertex(tr.Triangles[inc[k - 1]], v).err = NoErr
              /\ PrevVertex(tr.Triangles[inc[k]], v).err = NoErr
              /\ NextVertex(tr.Triangles[inc[k - 1]], v).val
                    = PrevVertex(tr.Triangles[inc[k]], v).val

\* The origin lies strictly inside the hull of the sites.
OriginInside(P) ==
    \A f \in HullFaces(P) :
        VDot(VCross(VSub(P[f[2]], P[f[1]]), VSub(P[f[3]], P[f[1]])), P[f[1]]) > 0

\* Number of positions of slice a holding value v.
Count(a, v) == Cardinality({k \in DOMAIN a : a[k] = v})

\* The entries of site v in the Diagram's flat arrays.
VertexList(dg, v) == Slice(dg.CellVertices, dg.CellOffsets[v], dg.CellOffsets[v + 1])

NeighborList(dg, v) == Slice(dg.CellNeighbors, dg.CellOffsets[v], dg.CellOffsets[v + 1])

RECURSIVE SumTo(_, _)
SumTo(f, n) == IF n < 0 THEN 0 ELSE f[n] + SumTo(f, n - 1)

-----------------------------------------------------------------------------
(* C1 *)

\* C1: whenever the hull output is a consistently oriented triangulation of
\* the sphere whose triangles form one closed fan around every site, a
\* Triangulation that NewTriangulation returns has, for every site v and
\* every k >= 1 within its slice, NextVertex of entry k-1 equal to PrevVertex
\* of entry k.
C1_CyclicConsistency ==
    (Succeeded /\ WellFormed(HullTriangles(hull.Indices), NumSites))
        => CyclicConsistent(ret.t)

\* The same statement for sites whose hull contains the origin: there the
\* orientation pass treats all faces alike and the sort finds every match.
C1_HoldsOriginInside ==
    (Succeeded /\ WellFormed(HullTriangles(hull.Indices), NumSites) /\ OriginInside(vertices))
        => CyclicConsistent(ret.t)

C1_WitnessOriginInside ==
    /\ Succeeded
    /\ WellFormed(HullTriangles(hull.Indices), NumSites)
    /\ OriginInside(vertices)
    /\ NumSites = Len0(InsideSites)

-----------------------------------------------------------------------------
(* C2 *)

\* C2: for N >= 4 sites NewTriangulation succeeds only if the hull output
\* holds exactly 3 * 2 * (N - 2) indices; with any other count it has, once
\* past the check, returned the inconsistent-hull error and no Triangulation
\* (and NewDiagram no Diagram); a returned Triangulation has 2 * (N - 2)
\* triangles.
C2_HullCountChecked ==
    /\ (ret.returned /\ ~ret.nil) =>
          /\ Len0(hull.Indices) = 3 * 2 * (NumSites - 2)
          /\ Len0(ret.t.Triangles) = 2 * (NumSites - 2)
    /\ (hull.called /\ pc # "check" /\ Len0(hull.Indices) # 3 * 2 * (NumSites - 2)) =>
          /\ ret.returned /\ ret.nil /\ ret.err = ErrInconsistentHull
          /\ diagram.returned => (diagram.nil /\ diagram.err = ErrInconsistentHull)

C2_Witness ==
    /\ NumSites >= MinVertices
    /\ hull.called
    /\ Len0(hull.Indices) > 3 * 2 * (NumSites - 2)
    /\ ret.returned /\ ret.nil /\ ret.err = ErrInconsistentHull
    /\ diagram.returned /\ diagram.nil

-----------------------------------------------------------------------------
(* C3 *)

\* The incidence slices of tr hold triangle k once per occurrence of the
\* site in Triangles[k], and nothing else; their lengths sum to 3 * numTriangles.
IncidenceIsCSR(tr) ==
    /\ \A v \in 0..(Len0(tr.Vertices) - 1) :
          /\ IncidentTriangles(tr, v).err = NoErr
          /\ \A k \in DOMAIN tr.Triangles :
                Count(IncidentTriangles(tr, v).val, k) = Count(tr.Triangles[k], v)
          /\ \A x \in DOMAIN IncidentTriangles(tr, v).val :
                IncidentTriangles(tr, v).val[x] \in DOMAIN tr.Triangles
    /\ SumTo([v \in 0..(Len0(tr.Vertices) - 1) |-> Len0(IncidentTriangles(tr, v).val)],
             Len0(tr.Vertices) - 1) = 3 * Len0(tr.Triangles)

\* C3: on every hull output with indices in [0, N) that passes the count
\* check, the slice of every site v holds triangle t exactly when v is a vertex
\* of Triangles[t], once per occurrence, when the placement pass has ended,
\* throughout the CCW sort and in the Triangulation returned; the slice
\* lengths sum to 3 * numTriangles.
C3_IncidenceIsCSR ==
    /\ pc = "sort" => IncidenceIsCSR(dt)
    /\ Succeeded => IncidenceIsCSR(ret.t)

\* A returned Triangulation one of whose triangles lists a site twice, and
\* one of whose slices the sort has reordered.
C3_Witness ==
    /\ Succeeded
    /\ \E k \in DOMAIN ret.t.Triangles : \E v \in 0..(NumSites - 1) :
           /\ Count(ret.t.Triangles[k], v) = 2
           /\ Count(IncidentTriangles(ret.t, v).val, k) = 2
    /\ \E x \in DOMAIN ret.t.IncidentTriangleIndices :
           x > 0 /\ ret.t.IncidentTriangleIndices[x] < ret.t.IncidentTriangleIndices[x - 1]
                 /\ \E v \in 1..NumSites :
                       ret.t.IncidentTriangleOffsets[v - 1] < x
                         /\ x < ret.t.IncidentTriangleOffsets[v]

-----------------------------------------------------------------------------
(* C4 *)

\* C4: in every Diagram NewDiagram returns, CellOffsets has NumCells() + 1
\* entries, does not decrease, starts at 0 and ends at len(CellVertices),
\* which is len(CellNeighbors); for every site v, len(IncidentTriangles(v)),
\* Cell(v).NumVertices(), Cell(v).NumNeighbors() and
\* CellOffsets[v+1] - CellOffsets[v] are one number.
C4_OffsetsShape ==
    DiagramBuilt =>
        LET dg == diagram.d
        IN /\ Len0(dg.CellOffsets) = NumCells(dg) + 1
           /\ NumCells(dg) = NumSites
           /\ \A v \in 0..(NumCells(dg) - 1) : dg.CellOffsets[v] <= dg.CellOffsets[v + 1]
           /\ dg.CellOffsets[0] = 0
           /\ dg.CellOffsets[NumCells(dg)] = Len0(dg.CellVertices)
           /\ Len0(dg.CellVertices) = Len0(dg.CellNeighbors)
           /\ \A v \in 0..(NumCells(dg) - 1) :
                 /\ Len0(IncidentTriangles(ret.t, v).val) = CellNumVertices(dg, Cell(dg, v))
                 /\ CellNumVertices(dg, Cell(dg, v)) = CellNumNeighbors(dg, Cell(dg, v))
                 /\ CellNumNeighbors(dg, Cell(dg, v)) = dg.CellOffsets[v + 1] - dg.CellOffsets[v]
                 /\ Len0(CellVertexIndices(dg, Cell(dg, v))) = Len0(CellNeighborIndices(dg, Cell(dg, v)))

\* A Diagram whose cells do not all have the same number of vertices.
C4_Witness ==
    /\ DiagramBuilt
    /\ \E v, w \in 0..(NumCells(diagram.d) - 1) :
           CellNumVertices(diagram.d, Cell(diagram.d, v))
              < CellNumVertices(diagram.d, Cell(diagram.d, w))

-----------------------------------------------------------------------------
(* C5 *)

TriangleSites(tri) == {tri[0], tri[1], tri[2]}

\* C5: in a Diagram built from a well-formed triangulation, for every site v
\* with k = NumVertices() and every i < k, entry i of the cell's neighbour
\* list is NextVertex of the cell's i-th triangle at v, is a site index other
\* than v, and is a vertex of the cell's i-th and ((i+1) mod k)-th triangles.
C5_NeighborsFollowFan ==
    (DiagramBuilt /\ WellFormed(ret.t.Triangles, NumSites)) =>
        LET dg == diagram.d
        IN \A v \in 0..(NumCells(dg) - 1) :
              LET k == dg.CellOffsets[v + 1] - dg.CellOffsets[v]
                  nbs == NeighborList(dg, v)
                  tri(x) == ret.t.Triangles[dg.CellVertices[dg.CellOffsets[v] + x]]
              IN /\ k = Len0(nbs)
                 /\ k = Len0(VertexList(dg, v))
                 /\ \A x \in 0..(k - 1) :
                       /\ NextVertex(tri(x), v).err = NoErr
                       /\ nbs[x] = NextVertex(tri(x), v).val
                       /\ nbs[x] \in 0..(NumCells(dg) - 1)
                       /\ nbs[x] # v
                       /\ nbs[x] \in TriangleSites(tri(x))
                       /\ nbs[x] \in TriangleSites(tri((x + 1) % k))

\* A Diagram of a well-formed triangulation with a cell of five vertices,
\* whose last neighbour closes the fan onto its first triangle.
C5_Witness ==
    /\ DiagramBuilt
    /\ WellFormed(ret.t.Triangles, NumSites)
    /\ \E v \in 0..(NumCells(diagram.d) - 1) :
           /\ Len0(NeighborList(diagram.d, v)) = 5
           /\ NeighborList(diagram.d, v)[4]
                 \in TriangleSites(ret.t.Triangles[VertexList(diagram.d, v)[0]])

-----------------------------------------------------------------------------
(* C6 *)

Finished == pc = "done"

\* The caller handed in an epsilon that WithEps refuses.
RefusedEps ==
    /\ epsArg.given
    /\ \/ epsArg.eps < 0
       \/ entry = "NewTriangulation" /\ epsArg.eps = 0

-----------------------------------------------------------------------------
(* C7 *)

\* The returned structure is nil whenever the error is not.
NilOnError ==
    /\ ret.returned => (ret.err # NoErr <=> ret.nil)
    /\ diagram.returned => (diagram.err # NoErr <=> diagram.nil)

\* C7 as stated: with fewer than 4 sites both entry points fail with the
\* insufficient-input error, the hull is not called, nothing is returned.
C7_Original ==
    /\ (Finished /\ NumSites < 4) =>
          /\ ret.returned /\ ret.nil /\ ret.err = ErrInsufficient
          /\ entry = "NewDiagram" =>
                (diagram.returned /\ diagram.nil /\ diagram.err = ErrInsufficient)
          /\ ~hull.called
    /\ NilOnError

\* C7 amended: with fewer than 4 sites both entry points fail without calling
\* the hull and return nothing; the error is the insufficient-input error
\* unless the epsilon is refused too, which is reported first, as the
\* invalid-tolerance error.  Whenever the error is not nil the structure is.
C7_Amended ==
    /\ (Finished /\ NumSites < 4) =>
          /\ ret.returned /\ ret.nil
          /\ ret.err = IF RefusedEps THEN ErrInvalidEps ELSE ErrInsufficient
          /\ entry = "NewDiagram" =>
                (diagram.returned /\ diagram.nil /\ diagram.err = ret.err)
    /\ NumSites < 4 => ~hull.called
    /\ NilOnError

\* Three sites and an epsilon that is accepted: the insufficient-input error.
C7_Witness ==
    /\ Finished
    /\ NumSites = 3
    /\ entry = "NewDiagram"
    /\ ~RefusedEps
    /\ diagram.returned /\ diagram.nil /\ diagram.err = ErrInsufficient
    /\ ~hull.called

-----------------------------------------------------------------------------
(* C8 *)

CallFailed == call.res.err # NoErr

-----------------------------------------------------------------------------
(* C9 *)

\* C9: on a hull output that passes the cardinality check, NewTriangulation
\* either returns a Triangulation whose incidence order is cyclically
\* consistent (the sort found a match at every position), or fails with the
\* inconsistent-hull error and returns no Triangulation.
C9_SortFailureReported ==
    (ret.returned /\ hull.called /\ Len0(hull.Indices) = 3 * 2 * (NumSites - 2)) =>
        \/ ~ret.nil /\ CyclicConsistent(ret.t)
        \/ ret.nil /\ ret.err = ErrInconsistentHull

-----------------------------------------------------------------------------
(* C10 *)

NeighborSet(dg, v) == {NeighborList(dg, v)[x] : x \in DOMAIN NeighborList(dg, v)}

\* C10: in a Diagram built from a well-formed triangulation, u is in the
\* neighbour list of Cell(v) iff v is in the neighbour list of Cell(u), and
\* no site appears twice in one cell's neighbour list.
C10_AdjacencySymmetric ==
    (DiagramBuilt /\ WellFormed(ret.t.Triangles, NumSites)) =>
        LET dg == diagram.d
        IN /\ \A u, v \in 0..(NumCells(dg) - 1) :
                 u \in NeighborSet(dg, v) <=> v \in NeighborSet(dg, u)
           /\ \A v \in 0..(NumCells(dg) - 1) :
                 Cardinality(NeighborSet(dg, v)) = Len0(NeighborList(dg, v))

\* A Diagram of a well-formed triangulation in which two sites are not
\* neighbours, so that both directions of the equivalence occur.
C10_Witness ==
    /\ DiagramBuilt
    /\ WellFormed(ret.t.Triangles, NumSites)
    /\ \E u, v \in 0..(NumCells(diagram.d) - 1) :
           /\ u # v
           /\ u \notin NeighborSet(diagram.d, v)
           /\ v \notin NeighborSet(diagram.d, u)
    /\ \E u, v \in 0..(NumCells(diagram.d) - 1) :
           u \in NeighborSet(diagram.d, v) /\ v \in NeighborSet(diagram.d, u)

====
